---- MODULE Spec2Model ----
(***************************************************************************)
(* Model of dash.py, the WRPF UK Referee Planner: a Streamlit script that  *)
(* loads referees.xlsx into a session table, shows it in an editable grid, *)
(* and writes it back behind a shared-password gate.                       *)
(*                                                                         *)
(* Cell values are tuples of strings:                                      *)
(*   <<"nan">>        a null (NaN / NaT / None) in a DataFrame             *)
(*   <<"blank">>      an empty cell of the workbook                        *)
(*   <<"str", s>>     the text s ("" is the empty string)                  *)
(*   <<"ts", d, t>>   the timestamp of date d at time t                    *)
(* A DataFrame is [cols |-> sequence of column names,                      *)
(*                 rows |-> sequence of functions from the columns].       *)
(***************************************************************************)
EXTENDS Integers, Sequences, FiniteSets, TLC

VARIABLES
    file,           \* referees.xlsx (FILE_PATH)
    PASSWORD,       \* st.secrets["REF_PLANNER_PASSWORD"]
    started,        \* per session: "data" in st.session_state
    session_data,   \* per session: st.session_state.data
    edited_df,      \* per session: what st.data_editor returns (frame + grid edits)
    edit_password,  \* per session: the "Password to save" input
    add_password,   \* per session: the "Password to add" input
    sidebar,        \* per session: what the Save button's branch last showed
    event,          \* the interaction that caused the latest script run
    n_edits,        \* grid edits made so far
    result,         \* SpecLoad: the frame load_data last returned
    rt              \* SpecLoad: progress of the load/save round trips

vars == <<file, PASSWORD, started, session_data, edited_df, edit_password,
          add_password, sidebar, event, n_edits, result, rt>>

sessionVars == <<started, session_data, edited_df, edit_password,
                 add_password, sidebar, event, n_edits>>

loadVars == <<result, rt>>

-----------------------------------------------------------------------------
(* Bounds *)

MaxFileRows == 2
MaxRoundTrips == 2
MaxRows == 2
MaxEdits == 1

-----------------------------------------------------------------------------
(* Values *)

NaN == <<"nan">>
Blank == <<"blank">>
Str(s) == <<"str", s>>
Ts(d, t) == <<"ts", d, t>>

IsTs(v) == v[1] = "ts"
IsNull(v) == v = NaN

Range(s) == {s[i] : i \in 1..Len(s)}

\* The strings the model offers that parse as a date.
DateStrings == {"2024-03-01"}
Midnight == "00:00"

\* pd.to_datetime(x, errors="coerce"), one element: a timestamp stays, a
\* parseable string becomes its timestamp (a bare date at midnight), anything
\* else (null, "", unparseable text) becomes NaT.
to_datetime(v) ==
    IF IsTs(v) THEN v
    ELSE IF v[1] = "str" /\ v[2] \in DateStrings THEN Ts(v[2], Midnight)
    ELSE NaN

\* Series.combine_first, one element: the left value unless it is null.
\* Faulty variant: the right value wins.
combine_first_right(a, b) == IF IsNull(b) THEN a ELSE b

combine_first(a, b) == IF IsNull(a) THEN b ELSE a

\* datetime.combine(event_date, event_time)
datetime_combine(d, t) == Ts(d, t)

-----------------------------------------------------------------------------
(* Columns *)

ES == "Event Start"
ED == "Event Date"

required_cols ==
    <<"Event Start", "Event Location", "Post Code", "Senior Referee",
      "Referee 2", "Referee 3", "Referee 4", "Referee 5", "Referee 6">>

Has(df, c) == c \in Range(df.cols)

\* df[c]: the column's values, row by row.
Column(df, c) == [i \in 1..Len(df.rows) |-> df.rows[i][c]]

\* df[c] = values: replaces the column, or adds it as the last one.
SetColumn(df, c, values) ==
    [cols |-> IF Has(df, c) THEN df.cols ELSE Append(df.cols, c),
     rows |-> [i \in 1..Len(df.rows) |->
                 [k \in Range(df.cols) \cup {c} |->
                     IF k = c THEN values[i] ELSE df.rows[i][k]]]]

\* pd.to_datetime(series, errors="coerce")
to_datetime_series(values) == [i \in DOMAIN values |-> to_datetime(values[i])]

\* a.combine_first(b)
combine_first_series(a, b) == [i \in DOMAIN a |-> combine_first(a[i], b[i])]

\* df.drop(columns=[c])
DropColumn(df, c) ==
    [cols |-> SelectSeq(df.cols, LAMBDA k : k # c),
     rows |-> [i \in 1..Len(df.rows) |->
                 [k \in Range(df.cols) \ {c} |-> df.rows[i][k]]]]

\* df[cols]
SelectColumns(df, cols) ==
    [cols |-> cols,
     rows |-> [i \in 1..Len(df.rows) |-> [k \in Range(cols) |-> df.rows[i][k]]]]

-----------------------------------------------------------------------------
(* The workbook *)

MissingFile == [status |-> "missing", cols |-> <<>>, rows |-> <<>>]
UnreadableFile == [status |-> "unreadable", cols |-> <<>>, rows |-> <<>>]

\* os.path.exists(FILE_PATH)
path_exists(f) == f.status # "missing"

\* pd.read_excel raises when the path exists and is no readable workbook.
read_excel_raises(f) == f.status = "unreadable"

\* pd.read_excel: the first sheet row is the header, every later row a
\* record, in order; an empty cell reads as NaN.
\* Faulty variant: the first record is taken for the header row and lost.
read_excel_header1(f) ==
    [cols |-> f.cols,
     rows |-> [i \in 1..(Len(f.rows) - 1) |->
                 [k \in Range(f.cols) |->
                     IF f.rows[i + 1][k] = Blank THEN NaN ELSE f.rows[i + 1][k]]]]

read_excel(f) ==
    [cols |-> f.cols,
     rows |-> [i \in 1..Len(f.rows) |->
                 [k \in Range(f.cols) |->
                     IF f.rows[i][k] = Blank THEN NaN ELSE f.rows[i][k]]]]

\* df.to_excel(FILE_PATH, index=False): the header row and every row in order;
\* a null and an empty string are both written as an empty cell.
to_excel(df) ==
    [status |-> "ok",
     cols |-> df.cols,
     rows |-> [i \in 1..Len(df.rows) |->
                 [k \in Range(df.cols) |->
                     IF IsNull(df.rows[i][k]) \/ df.rows[i][k] = Str("")
                     THEN Blank ELSE df.rows[i][k]]]]

\* save_data(df), lines 46-47: the workbook f at FILE_PATH is replaced whole.
\* Faulty variant: the rows are added to those already in the workbook.
save_data_append(f, df) ==
    IF f.status = "ok" /\ f.cols = df.cols
    THEN [to_excel(df) EXCEPT !.rows = f.rows \o to_excel(df).rows]
    ELSE to_excel(df)

save_data(f, df) == to_excel(df)

\* Lines 23-26: fold the legacy "Event Date" column into "Event Start".
MigrateStart(df) ==
    IF ~Has(df, ES) /\ Has(df, ED)
    THEN SetColumn(df, ES, to_datetime_series(Column(df, ED)))
    ELSE IF Has(df, ES) /\ Has(df, ED)
    THEN SetColumn(df, ES,
            to_datetime_series(combine_first_series(Column(df, ES), Column(df, ED))))
    ELSE df

\* Lines 28-29
DropLegacy(df) == IF Has(df, ED) THEN DropColumn(df, ED) ELSE df

\* Lines 36-38: every required column the frame lacks is added after the
\* frame's own columns, in required order, "" in every row.
\* Faulty variant: the added columns are null instead of "".
EnsureColumns_nan(df, cols) ==
    [cols |-> df.cols \o SelectSeq(cols, LAMBDA c : ~Has(df, c)),
     rows |-> [i \in 1..Len(df.rows) |->
                 [k \in Range(df.cols) \cup Range(cols) |->
                     IF Has(df, k) THEN df.rows[i][k] ELSE NaN]]]

EnsureColumns(df, cols) ==
    [cols |-> df.cols \o SelectSeq(cols, LAMBDA c : ~Has(df, c)),
     rows |-> [i \in 1..Len(df.rows) |->
                 [k \in Range(df.cols) \cup Range(cols) |->
                     IF Has(df, k) THEN df.rows[i][k] ELSE Str("")]]]

EmptyFrame == [cols |-> required_cols, rows |-> <<>>]

\* load_data() on a path that is absent or a readable workbook.
load_data(f) ==
    IF path_exists(f)
    THEN SelectColumns(
            EnsureColumns(DropLegacy(MigrateStart(read_excel(f))), required_cols),
            required_cols)
    ELSE EmptyFrame

-----------------------------------------------------------------------------
(* Session defaults, shared by both specifications *)

Sessions == {"A", "B"}

\* The add-event form's fields, lines 143-152.
FormFields ==
    {"event_date", "event_time", "event_location", "post_code", "senior_ref",
     "referee_2", "referee_3", "referee_4", "referee_5", "referee_6"}

NoForm == [k \in FormFields |-> ""]

\* event: which interaction, in which session, with which form, and whether
\* the grid held edits the session table lacks when the run began.
NoEvent == [kind |-> "none", s |-> "A", form |-> NoForm, pending |-> FALSE]

NothingShown == [save |-> "none", add |-> "none"]

SessionInit ==
    /\ started = [s \in Sessions |-> FALSE]
    /\ session_data = [s \in Sessions |-> EmptyFrame]
    /\ edited_df = [s \in Sessions |-> EmptyFrame]
    /\ edit_password = [s \in Sessions |-> ""]
    /\ add_password = [s \in Sessions |-> ""]
    /\ sidebar = [s \in Sessions |-> NothingShown]
    /\ event = NoEvent
    /\ n_edits = 0

-----------------------------------------------------------------------------
(* SpecLoad: load_data and save_data applied to bounded workbooks *)

SourceOrder == <<ED, "Notes", "Event Location", ES>>
Reverse(s) == [i \in 1..Len(s) |-> s[Len(s) + 1 - i]]
SourceHeaders ==
    UNION {{SelectSeq(SourceOrder, LAMBDA c : c \in S),
            SelectSeq(Reverse(SourceOrder), LAMBDA c : c \in S)} :
           S \in SUBSET Range(SourceOrder)}

SourceCells(c) ==
    IF c = ED
    THEN {Blank, Ts("2024-03-01", Midnight), Str("2024-03-01"), Str("n/a")}
    ELSE IF c = ES THEN {Blank, Ts("2024-03-02", "09:00"), Str("n/a")}
    ELSE IF c = "Notes" THEN {Str("x")}
    ELSE {Blank, Str("Leeds")}

SourceRows(S) ==
    {[c \in S |-> CASE c = ED -> d [] c = ES -> e [] c = "Notes" -> n [] OTHER -> l] :
        d \in SourceCells(ED), e \in SourceCells(ES), n \in SourceCells("Notes"),
        l \in SourceCells("Event Location")}

\* Before the program runs, the workbook is absent, unreadable, or a sheet
\* with some header and no rows yet.
SourceFiles ==
    {MissingFile, UnreadableFile} \cup
    {[status |-> "ok", cols |-> h, rows |-> <<>>] : h \in SourceHeaders}

InitLoad ==
    /\ file \in SourceFiles
    /\ result = EmptyFrame
    /\ rt = [phase |-> "start", saves |-> 0, file1 |-> MissingFile,
             load1 |-> EmptyFrame]
    /\ PASSWORD = "pw"
    /\ SessionInit

\* Whoever keeps the workbook adds a row to it before the program loads it.
WriteSourceRow ==
    /\ rt.phase = "start"
    /\ file.status = "ok"
    /\ Len(file.rows) < MaxFileRows
    /\ \E r \in SourceRows(Range(file.cols)) :
          file' = [file EXCEPT !.rows = Append(file.rows, r)]
    /\ UNCHANGED <<result, rt, PASSWORD, sessionVars>>

\* load_data() called: it returns a frame, or read_excel's exception escapes.
LoadStep ==
    /\ rt.phase \in {"start", "saved"}
    /\ IF path_exists(file) /\ read_excel_raises(file)
       THEN /\ rt' = [rt EXCEPT !.phase = "raised"]
            /\ UNCHANGED result
       ELSE /\ result' = load_data(file)
            /\ rt' = [rt EXCEPT !.phase = "loaded",
                                !.load1 = IF rt.saves = 1 THEN load_data(file)
                                          ELSE @]
    /\ UNCHANGED <<file, PASSWORD, sessionVars>>

\* save_data(df) called on the frame load_data returned.
SaveStep ==
    /\ rt.phase = "loaded"
    /\ rt.saves < MaxRoundTrips
    /\ file' = save_data(file, result)
    /\ rt' = [rt EXCEPT !.phase = "saved", !.saves = @ + 1,
                        !.file1 = IF rt.saves = 0 THEN save_data(file, result) ELSE @]
    /\ UNCHANGED <<result, PASSWORD, sessionVars>>

NextLoad == WriteSourceRow \/ LoadStep \/ SaveStep

SpecLoad == InitLoad /\ [][NextLoad]_vars

-----------------------------------------------------------------------------
(* Spec: the script's runs, one per user interaction, in two sessions *)

Passwords == {"", "pw", "guess"}
Secrets == {"pw"}

\* The workbooks a deployment may start from.
InitialFiles ==
    {MissingFile, UnreadableFile,
     [status |-> "ok",
      cols |-> <<"Event Date", "Event Location", "Post Code", "Senior Referee">>,
      rows |-> << [c \in {"Event Date", "Event Location", "Post Code",
                          "Senior Referee"} |->
                     CASE c = "Event Date" -> Ts("2024-03-01", Midnight)
                       [] c = "Event Location" -> Str("Leeds")
                       [] c = "Post Code" -> Str("LS1 1AA")
                       [] OTHER -> Str("J. Smith")] >>],
     [status |-> "ok",
      cols |-> <<"Event Start", "Event Location">>,
      rows |-> << [c \in {"Event Start", "Event Location"} |->
                     IF c = "Event Start" THEN Str("n/a") ELSE Str("Bath")] >>]}

\* The forms a user may submit.
Forms ==
    {[NoForm EXCEPT !.event_date = "2024-03-05", !.event_time = t,
                    !.event_location = l, !.post_code = "HU1",
                    !.senior_ref = "A. Ref", !.referee_2 = "B. Ref"] :
        t \in {"09:00", "14:30"}, l \in {"Hull"}}

\* What a user may put in a grid cell: the DatetimeColumn yields a timestamp,
\* a text column a string, and a cleared cell is None.
GridColumns == {ES, "Event Location"}
GridValues(c) == IF c = ES THEN {Ts("2024-03-02", "09:00")} ELSE {Str("York")}

Init ==
    /\ file \in InitialFiles
    /\ PASSWORD \in Secrets
    /\ SessionInit
    /\ result = EmptyFrame
    /\ rt = [phase |-> "start", saves |-> 0, file1 |-> MissingFile,
             load1 |-> EmptyFrame]

\* Line 98: df["Event Start"] = pd.to_datetime(df["Event Start"], errors="coerce")
CoerceStart(df) == SetColumn(df, ES, to_datetime_series(Column(df, ES)))

\* Lines 141-174, what the add section shows for the password in its input:
\* the form, the rejection message, or nothing.
\* Faulty variant: the empty password is rejected aloud as well.
AddSection_strict(pw) == IF pw = PASSWORD THEN "form" ELSE "rejected"

AddSection(pw) ==
    IF pw = PASSWORD THEN "form" ELSE IF pw # "" THEN "rejected" ELSE "none"

\* Lines 157-167
new_row(form) ==
    [c \in Range(required_cols) |->
        CASE c = "Event Start" -> datetime_combine(form.event_date, form.event_time)
          [] c = "Event Location" -> Str(form.event_location)
          [] c = "Post Code" -> Str(form.post_code)
          [] c = "Senior Referee" -> Str(form.senior_ref)
          [] c = "Referee 2" -> Str(form.referee_2)
          [] c = "Referee 3" -> Str(form.referee_3)
          [] c = "Referee 4" -> Str(form.referee_4)
          [] c = "Referee 5" -> Str(form.referee_5)
          [] OTHER -> Str(form.referee_6)]

\* Line 168: pd.concat([df, pd.DataFrame([row])], ignore_index=True)
\* Faulty variant: the new row goes first.
concat_front(df, row) == [cols |-> df.cols, rows |-> <<row>> \o df.rows]

concat(df, row) == [cols |-> df.cols, rows |-> Append(df.rows, row)]

Pending(s) == started[s] /\ edited_df[s] # session_data[s]

Event(kind, s, form) ==
    [kind |-> kind, s |-> s, form |-> form, pending |-> Pending(s)]

\* The first run of a session, lines 94-98 and 119: the table is loaded, its
\* start column coerced, and the grid shows it unedited. When read_excel
\* raises, the run ends there and nothing is stored.
StartSession(s) ==
    /\ ~started[s]
    /\ IF path_exists(file) /\ read_excel_raises(file)
       THEN /\ sidebar' = [sidebar EXCEPT ![s] = [save |-> "exception", add |-> "none"]]
            /\ UNCHANGED <<started, session_data, edited_df>>
       ELSE /\ started' = [started EXCEPT ![s] = TRUE]
            /\ session_data' = [session_data EXCEPT ![s] = CoerceStart(load_data(file))]
            /\ edited_df' = [edited_df EXCEPT ![s] = CoerceStart(load_data(file))]
            /\ sidebar' = [sidebar EXCEPT ![s] =
                              [save |-> "none", add |-> AddSection(add_password[s])]]
    /\ event' = Event("start", s, NoForm)
    /\ UNCHANGED <<file, PASSWORD, edit_password, add_password, n_edits, loadVars>>

\* A run in which no button is down: line 98 coerces the session table in
\* place, the save branch shows nothing, the add section shows what the add
\* password pw calls for.
Redraw(s, pw) ==
    /\ session_data' = [session_data EXCEPT ![s] = CoerceStart(session_data[s])]
    /\ sidebar' = [sidebar EXCEPT ![s] = [save |-> "none", add |-> AddSection(pw)]]

\* The user changes "Password to save" (line 115).
SetEditPassword(s, pw) ==
    /\ started[s]
    /\ pw # edit_password[s]
    /\ edit_password' = [edit_password EXCEPT ![s] = pw]
    /\ Redraw(s, add_password[s])
    /\ event' = Event("edit_password", s, NoForm)
    /\ UNCHANGED <<file, PASSWORD, started, edited_df, add_password, n_edits, loadVars>>

\* The user changes "Password to add" (line 140).
SetAddPassword(s, pw) ==
    /\ started[s]
    /\ pw # add_password[s]
    /\ add_password' = [add_password EXCEPT ![s] = pw]
    /\ Redraw(s, pw)
    /\ event' = Event("add_password", s, NoForm)
    /\ UNCHANGED <<file, PASSWORD, started, edited_df, edit_password, n_edits, loadVars>>

\* One edit in the grid (lines 119-128, num_rows="dynamic"): a cell is set or
\* cleared, an empty row is added at the end, or a row is deleted.
SetCell(df, i, c, v) == [df EXCEPT !.rows[i][c] = v]
AddRow(df) == concat(df, [c \in Range(df.cols) |-> NaN])
DeleteRow(df, i) ==
    [df EXCEPT !.rows = [j \in 1..(Len(df.rows) - 1) |->
                            IF j < i THEN df.rows[j] ELSE df.rows[j + 1]]]

GridEdits(df) ==
    UNION {{SetCell(df, i, c, v) : i \in 1..Len(df.rows),
                                   v \in GridValues(c) \cup {NaN}} :
           c \in GridColumns}
    \cup {DeleteRow(df, i) : i \in 1..Len(df.rows)}
    \cup (IF Len(df.rows) < MaxRows THEN {AddRow(df)} ELSE {})

EditGrid(s) ==
    /\ started[s]
    /\ n_edits < MaxEdits
    /\ \E df \in GridEdits(edited_df[s]) \ {edited_df[s]} :
          edited_df' = [edited_df EXCEPT ![s] = df]
    /\ n_edits' = n_edits + 1
    /\ Redraw(s, add_password[s])
    /\ event' = Event("grid", s, NoForm)
    /\ UNCHANGED <<file, PASSWORD, started, edit_password, add_password, loadVars>>

\* Line 131
\* Faulty variant: no password check.
SaveAuthorized_any(s) == TRUE

SaveAuthorized(s) == edit_password[s] = PASSWORD

\* Line 132: the frame that is saved is the grid's.
\* Faulty variant: the session table is saved, not the grid's frame.
SavedFrame_df(s) == session_data[s]

SavedFrame(s) == edited_df[s]

\* The user clicks "Save Changes", lines 130-136.
ClickSave(s) ==
    /\ started[s]
    /\ IF SaveAuthorized(s)
       THEN /\ file' = save_data(file, SavedFrame(s))
            /\ session_data' = [session_data EXCEPT ![s] = SavedFrame(s)]
            /\ sidebar' = [sidebar EXCEPT ![s] =
                              [save |-> "saved", add |-> AddSection(add_password[s])]]
       ELSE /\ session_data' = [session_data EXCEPT ![s] = CoerceStart(session_data[s])]
            /\ sidebar' = [sidebar EXCEPT ![s] =
                              [save |-> "rejected", add |-> AddSection(add_password[s])]]
            /\ UNCHANGED file
    /\ event' = Event("save", s, NoForm)
    /\ UNCHANGED <<PASSWORD, started, edited_df, edit_password, add_password,
                   n_edits, loadVars>>

\* Line 168: the frame the new row is appended to is the grid's.
\* Faulty variant: the row is appended to the session table.
AddBase_df(s) == session_data[s]

AddBase(s) == edited_df[s]

\* The user submits the add form, lines 141-172. The form is there only if
\* the last run drew it, and it is drawn again only under the add password;
\* then the row is appended, the frame saved and stored in the session, and
\* the script reruns at once (lines 97-98, 119) on the new table.
SubmitAddEvent(s, form) ==
    /\ started[s]
    /\ sidebar[s].add = "form"
    /\ AddSection(add_password[s]) = "form"
    /\ Len(AddBase(s).rows) < MaxRows
    /\ LET updated_df == concat(AddBase(s), new_row(form)) IN
          /\ file' = save_data(file, updated_df)
          /\ session_data' = [session_data EXCEPT ![s] = CoerceStart(updated_df)]
          /\ edited_df' = [edited_df EXCEPT ![s] = CoerceStart(updated_df)]
    /\ sidebar' = [sidebar EXCEPT ![s] =
                      [save |-> "none", add |-> AddSection(add_password[s])]]
    /\ event' = Event("add", s, form)
    /\ UNCHANGED <<PASSWORD, started, edit_password, add_password, n_edits, loadVars>>

\* One script run of session s, the user's inputs drawn from pws and forms.
Run(s, pws, forms) ==
    \/ StartSession(s)
    \/ \E pw \in pws : SetEditPassword(s, pw)
    \/ \E pw \in pws : SetAddPassword(s, pw)
    \/ EditGrid(s)
    \/ ClickSave(s)
    \/ \E form \in forms : SubmitAddEvent(s, form)

\* Spec: one session, every input.
Next == Run("A", Passwords, Forms)

Spec == Init /\ [][Next]_vars

\* SpecTwo: two sessions side by side on the same workbook, editing the
\* grid and saving.

NextTwo ==
    \E s \in Sessions :
        \/ StartSession(s)
        \/ \E pw \in Passwords : SetEditPassword(s, pw)
        \/ EditGrid(s)
        \/ ClickSave(s)

SpecTwo == Init /\ [][NextTwo]_vars

-----------------------------------------------------------------------------
(* Claims about load_data and save_data, checked under SpecLoad *)

\* The state right after load_data returned: file is the workbook it read.
Loaded == rt.phase = "loaded"

NRows == Len(file.rows)

\* A workbook cell as the value the claim expects in memory.
AsRead(cell) == IF cell = Blank THEN NaN ELSE cell

\* "Parsed as a timestamp": a date cell is its timestamp, a date string is
\* that date at midnight, anything else is null.
ParsedAsTimestamp(cell) ==
    CASE cell[1] = "ts" -> cell
      [] cell[1] = "str" /\ cell[2] \in DateStrings -> Ts(cell[2], Midnight)
      [] OTHER -> NaN

CanonicalShape ==
    /\ result.cols = required_cols
    /\ ED \notin Range(result.cols)
    /\ Len(result.rows) = NRows
    /\ \A i \in 1..NRows : DOMAIN result.rows[i] = Range(required_cols)

\* Row order: every column the source has keeps its values row by row
\* (Event Start only when there is no legacy column to migrate from).
RowOrderPreserved ==
    \A i \in 1..NRows : \A c \in Range(required_cols) \cap Range(file.cols) :
        (c # ES \/ ED \notin Range(file.cols))
            => result.rows[i][c] = AsRead(file.rows[i][c])

\* C3 as stated: after load_data of a readable workbook the frame has exactly
\* the nine canonical columns in order, no "Event Date", the source's rows in
\* order, and EVERY canonical column absent from the source is "" in every row.
C3_AsStated ==
    Loaded =>
        /\ CanonicalShape
        /\ RowOrderPreserved
        /\ \A c \in Range(required_cols) \ Range(file.cols) :
              \A i \in 1..NRows : result.rows[i][c] = Str("")

\* C3 amended: the same, except that an absent "Event Start" is filled with ""
\* only when the source has no "Event Date" either; with a legacy column it
\* holds that column's parsed values.
C3_CanonicalColumns ==
    Loaded =>
        /\ CanonicalShape
        /\ RowOrderPreserved
        /\ \A c \in Range(required_cols) \ Range(file.cols) :
              (c # ES \/ ED \notin Range(file.cols))
                  => \A i \in 1..NRows : result.rows[i][c] = Str("")

C3_Witness ==
    /\ Loaded
    /\ rt.saves = 0
    /\ NRows = 2
    /\ "Notes" \in Range(file.cols)
    /\ "Event Location" \notin Range(file.cols)
    /\ ES \notin Range(file.cols)
    /\ ED \notin Range(file.cols)
    /\ result.rows[1]["Event Location"] = Str("")

\* C4: legacy-date migration per row. Legacy column only: the timestamp is the
\* legacy value parsed. Both columns: an empty unified cell is back-filled from
\* the legacy value, a non-empty one wins. An unparseable value gives a null
\* timestamp in its own row and the load still returns.
C4_Migration ==
    (Loaded /\ ED \in Range(file.cols)) =>
        /\ Len(result.rows) = NRows
        /\ \A i \in 1..NRows :
              IF ES \notin Range(file.cols)
              THEN result.rows[i][ES] = ParsedAsTimestamp(file.rows[i][ED])
              ELSE IF file.rows[i][ES] = Blank
              THEN result.rows[i][ES] = ParsedAsTimestamp(file.rows[i][ED])
              ELSE result.rows[i][ES] = ParsedAsTimestamp(file.rows[i][ES])

C4_Witness ==
    /\ Loaded
    /\ rt.saves = 0
    /\ ED \in Range(file.cols)
    /\ ES \in Range(file.cols)
    /\ NRows = 2
    /\ file.rows[1][ES] = Blank
    /\ file.rows[1][ED] = Str("2024-03-01")
    /\ result.rows[1][ES] = Ts("2024-03-01", Midnight)
    /\ file.rows[2][ES] = Str("n/a")
    /\ file.rows[2][ED] # Blank
    /\ result.rows[2][ES] = NaN

\* C6: once save_data(load_data()) has run twice, the workbook is the one the
\* first save wrote, and a load after the second save returns the frame a load
\* after the first save returned.
C6_RoundTrip ==
    /\ rt.saves >= 2 => file = rt.file1
    /\ (rt.saves >= 2 /\ Loaded) => result = rt.load1

C6_Witness ==
    /\ rt.saves = 2
    /\ Loaded
    /\ Len(result.rows) = 2
    /\ result.rows[1][ES] = Ts("2024-03-01", Midnight)
    /\ result.rows[2][ES] = NaN
    /\ result.rows[2]["Event Location"] = Str("Leeds")

\* C8: when the storage location is absent or cannot be read, load_data
\* returns the empty canonical frame and never fails.
C8_NoHardFailure ==
    (file.status \in {"missing", "unreadable"} /\ rt.phase # "start") =>
        /\ rt.phase = "loaded"
        /\ result = EmptyFrame

-----------------------------------------------------------------------------
(* Claims about the gated actions, checked under Spec and SpecTwo *)

\* A frame cell as the workbook stores it: the sheet has one empty cell for
\* both a null and an empty string.
AsWritten(v) == IF v = NaN \/ v = Str("") THEN Blank ELSE v

\* The workbook holds exactly frame df: its columns, and its rows in order.
FileHolds(f, df) ==
    /\ f.status = "ok"
    /\ f.cols = df.cols
    /\ Len(f.rows) = Len(df.rows)
    /\ \A i \in 1..Len(df.rows) : \A c \in Range(df.cols) :
          f.rows[i][c] = AsWritten(df.rows[i][c])

\* C1: a Save click under a password that is not the secret, and a run under
\* an add password that is not the secret, leave the workbook and the session
\* table as they were; and no add form is ever submitted under an add password
\* that is not the secret.
C1_WrongPasswordStep ==
    LET s == event'.s IN
    /\ (event'.kind = "save" /\ edit_password'[s] # PASSWORD)
          => (file' = file /\ session_data' = session_data)
    /\ (event'.kind = "add_password" /\ add_password'[s] # PASSWORD)
          => (file' = file /\ session_data' = session_data)
    /\ event'.kind = "add" => add_password'[s] = PASSWORD

C1_WrongPasswordNoMutation == [][C1_WrongPasswordStep]_vars

C1_Witness ==
    /\ event.kind = "save"
    /\ event.pending
    /\ edit_password[event.s] = "guess"
    /\ sidebar[event.s].save = "rejected"
    /\ ~FileHolds(file, edited_df[event.s])

\* C2: right after a Save click under the secret, the workbook holds exactly
\* the grid's working copy and the session table is that working copy.
C2_SaveOverwrites ==
    (event.kind = "save" /\ edit_password[event.s] = PASSWORD) =>
        /\ FileHolds(file, edited_df[event.s])
        /\ session_data[event.s] = edited_df[event.s]

C2_Witness ==
    /\ event.kind = "save"
    /\ event.pending
    /\ edit_password[event.s] = PASSWORD
    /\ Len(edited_df[event.s].rows) = 0
    /\ file.status = "ok"
    /\ file.rows = <<>>

\* C5: a submitted add form appends exactly one record, built from the form's
\* fields with start = date combined with time, after the rows the grid held,
\* which stay as they were and in order; the result is in the workbook and is
\* the session table.
C5_AddStep ==
    event'.kind = "add" =>
        LET s == event'.s
            form == event'.form
            old == edited_df[s].rows
            new == session_data'[s].rows
        IN  /\ Len(new) = Len(old) + 1
            /\ \A i \in 1..Len(old) : new[i] = old[i]
            /\ new[Len(new)] =
                  [c \in Range(required_cols) |->
                     CASE c = "Event Start" -> Ts(form.event_date, form.event_time)
                       [] c = "Event Location" -> Str(form.event_location)
                       [] c = "Post Code" -> Str(form.post_code)
                       [] c = "Senior Referee" -> Str(form.senior_ref)
                       [] c = "Referee 2" -> Str(form.referee_2)
                       [] c = "Referee 3" -> Str(form.referee_3)
                       [] c = "Referee 4" -> Str(form.referee_4)
                       [] c = "Referee 5" -> Str(form.referee_5)
                       [] OTHER -> Str(form.referee_6)]
            /\ session_data'[s].cols = required_cols
            /\ FileHolds(file', session_data'[s])

C5_AddAppends == [][C5_AddStep]_vars

C5_Witness ==
    /\ event.kind = "add"
    /\ Len(session_data[event.s].rows) = 2
    /\ session_data[event.s].rows[1]["Event Location"] = Str("Leeds")
    /\ session_data[event.s].rows[2]["Event Start"] = Ts("2024-03-05", "14:30")
    /\ FileHolds(file, session_data[event.s])

\* C9 as stated: every run under a save or add password that differs from the
\* secret, the empty one included, shows the rejection message.
C9_AsStated ==
    LET s == event.s IN
    /\ (event.kind = "save" /\ edit_password[s] # PASSWORD)
          => sidebar[s].save = "rejected"
    /\ (event.kind = "add_password" /\ add_password[s] # PASSWORD)
          => sidebar[s].add = "rejected"

\* C9 amended: a Save click under a wrong password (the empty one included)
\* and a non-empty wrong add password show the rejection message, while an
\* empty add password shows neither message nor form; and whatever failed
\* before, a Save click under the secret saves and the add password, once it
\* is the secret, brings up the form.
C9_RejectionAndRetry ==
    \A s \in Sessions :
        /\ (event.kind = "save" /\ event.s = s /\ edit_password[s] # PASSWORD)
              => sidebar[s].save = "rejected"
        /\ (event.kind = "save" /\ event.s = s /\ edit_password[s] = PASSWORD)
              => (sidebar[s].save = "saved" /\ FileHolds(file, session_data[s]))
        /\ (started[s] /\ add_password[s] \notin {PASSWORD, ""})
              => sidebar[s].add = "rejected"
        /\ (started[s] /\ add_password[s] = "" /\ PASSWORD # "")
              => sidebar[s].add = "none"
        /\ (started[s] /\ add_password[s] = PASSWORD)
              => sidebar[s].add = "form"

C9_Witness ==
    /\ event.kind = "save"
    /\ sidebar[event.s].save = "saved"
    /\ sidebar[event.s].add = "rejected"
    /\ event.pending

\* C10: the workbook changes only in a Save click under the secret or an add
\* submitted under the secret, and an add writes the grid's working copy, its
\* unsaved edits included, followed by the new record.
C10_WriteStep ==
    file' # file =>
        LET s == event'.s IN
        \/ /\ event'.kind = "save"
           /\ edit_password[s] = PASSWORD
           /\ FileHolds(file', edited_df[s])
        \/ /\ event'.kind = "add"
           /\ add_password[s] = PASSWORD
           /\ file'.status = "ok"
           /\ Len(file'.rows) = Len(edited_df[s].rows) + 1
           /\ \A i \in 1..Len(edited_df[s].rows) : \A c \in Range(required_cols) :
                 file'.rows[i][c] = AsWritten(edited_df[s].rows[i][c])

C10_EditsPersistOnlyWhenAuthorized == [][C10_WriteStep]_vars

C10_Witness ==
    /\ event.kind = "add"
    /\ event.pending
    /\ edit_password[event.s] = ""
    /\ Len(file.rows) = 2
    /\ file.rows[1]["Event Location"] = Str("York")

\* C7: no save waits for another session; when both sessions' latest runs are
\* saves under the secret, the workbook holds in full the working copy of the
\* session that saved last, whatever the other one wrote.
C7_LastWriteWins ==
    \A s \in Sessions : \A t \in Sessions \ {s} :
        /\ (event.kind = "save" /\ event.s = s /\ edit_password[s] = PASSWORD)
              => sidebar[s].save = "saved"
        /\ (sidebar[s].save = "saved" /\ sidebar[t].save = "saved" /\ event.s = s)
              => FileHolds(file, edited_df[s])

C7_Witness ==
    /\ started["A"] /\ started["B"]
    /\ sidebar["A"].save = "saved"
    /\ sidebar["B"].save = "saved"
    /\ event.s = "B"
    /\ Len(edited_df["A"].rows) = 2
    /\ Len(edited_df["B"].rows) = 1
    /\ Len(file.rows) = 1

====
